---------------------------- MODULE Spec2Model ----------------------------
(***************************************************************************)
(* A model of art/estimators/speech_recognition/pytorch_espresso.py:       *)
(* the PyTorchEspresso estimator.  Two specifications:                      *)
(*   SpecCtor  the constructor __init__, one action per block of its body; *)
(*   Spec      the public methods called on a constructed estimator.       *)
(* Python's None is the empty tuple; Python indices are kept 0-based in    *)
(* batch_idx and shifted by one where a TLA+ sequence is indexed.          *)
(***************************************************************************)
EXTENDS Integers, Sequences, FiniteSets, TLC

\* ---- bounds of the model ----
MaxLen == 2
MaxN == 3
MaxBatch == 3
MaxFeat == 2

\* ---- program constants ----
INT16MAX == 32767
PadIdx == 1
EosIdx == 2
UnkIdx == 3
NBest == 1
Beam == 2

None == <<>>
Unbound == <<"UNBOUND">>

\* Amplitudes of normalised audio; the non-zero ones tell data from padding.
Amplitudes == {-1, 1}
\* The sample of length l that starts at amplitude a; its values alternate,
\* so that every position is told apart.
Alternating(l, a) == [k \in 1..l |-> IF k % 2 = 1 THEN a ELSE -a]
\* One sample of every length, and a second, different one of the longest
\* length, so that batches hold samples of equal length.
Samples == {Alternating(l, 1) : l \in 1..MaxLen} \cup {Alternating(MaxLen, -1)}
XInputs == UNION {[1..n -> Samples] : n \in 1..MaxN}
\* Target strings, as their characters; the word "Q" is not in the dictionary.
Targets == {<<"A">>, <<"B", " ", "Q">>}
\* One target for the samples at odd places and one for those at even places.
YInputs(n) == {[i \in 1..n |-> IF i % 2 = 1 THEN t ELSE u] : t, u \in Targets}
XKinds == {"ndarray", "tensor"}

VARIABLES
  pc,                      \* position: constructor block, or "idle"/"returned"
  args,                    \* the constructor's arguments
  cuda_available,          \* torch.cuda.is_available()
  clip_values,             \* self.clip_values
  postprocessing_defences, \* self.postprocessing_defences
  device,                  \* self._device
  pretrained,              \* the four (filename) locals of the pretrained model
  config_path, model_path, sp_path, dict_path,   \* constructor locals
  fetched,                 \* files fetched by get_file, in order
  esp_args,                \* self.esp_args
  loaded,                  \* the objects the constructor has loaded
  model_mode,              \* self._model.training: "train" or "eval"
  bn_train,                \* mode of the batch-norm layers
  generator,               \* self.generator
  call,                    \* the method called and its arguments
  batch, batch_idx, batch_dict,   \* the last _transform_model_input
  ret                      \* what the call returned or raised

ctorVars == <<args, cuda_available, clip_values, postprocessing_defences,
              pretrained, config_path, model_path, sp_path, dict_path,
              fetched, esp_args>>
estimatorVars == <<device, loaded, model_mode, bn_train, generator>>
callVars == <<call, batch, batch_idx, batch_dict, ret>>
vars == <<pc, ctorVars, estimatorVars, callVars>>

\* ---------------------------------------------------------------------
\* Python and numpy helpers
\* ---------------------------------------------------------------------

\* sorted(s, key=..., reverse=reverse), keys[i] being the key of s[i]: a
\* stable sort; with reverse=True the elements of equal key still keep their
\* original relative order.
sorted(s, keys, reverse) ==
  LET n == Len(s)
      before(j, i) == IF reverse THEN keys[j] > keys[i] ELSE keys[j] < keys[i]
      rank(i) == 1 + Cardinality({j \in 1..n :
                       before(j, i) \/ (keys[j] = keys[i] /\ j < i)})
  IN [r \in 1..n |-> s[CHOOSE i \in 1..n : rank(i) = r]]

\* range(n)
range(n) == [i \in 1..n |-> i - 1]

\* arr[idx] = vals for an index list idx: vals must have idx's length or
\* broadcast from length 1, else numpy raises ValueError; a repeated index
\* keeps the last value written.
IndexAssign(arr, idx, vals) ==
  IF Len(vals) = Len(idx) \/ Len(vals) = 1
  THEN [err |-> "none",
        value |-> [p \in 1..Len(arr) |->
           IF \E j \in 1..Len(idx) : idx[j] + 1 = p
           THEN LET j == CHOOSE j \in 1..Len(idx) :
                           /\ idx[j] + 1 = p
                           /\ \A k \in (j + 1)..Len(idx) : idx[k] + 1 # p
                IN IF Len(vals) = 1 THEN vals[1] ELSE vals[j]
           ELSE arr[p]]]
  ELSE [err |-> "ValueError", value |-> None]

\* int(np.ceil(n / float(batch_size)))
NumBatch(n, batch_size) == (n + batch_size - 1) \div batch_size

Min(a, b) == IF a < b THEN a ELSE b

\* x[begin:end], 0-based and end-exclusive
Slice(s, begin, end) == SubSeq(s, begin + 1, end)

\* ---------------------------------------------------------------------
\* _transform_model_input and its _collate_fn
\* ---------------------------------------------------------------------

\* A torch tensor: its data, its device, whether it requires grad, and the
\* object its autograd leaf is: "caller" when the leaf is the very object the
\* caller passed in x, "local" when torch.tensor(x_i) made a new one.
Tensor(data, dev, owner, rg) ==
  [data |-> data, device |-> dev, owner |-> owner, requires_grad |-> rg]

\* t.size(0)
Size0(t) == Len(t.data)

\* self.spp.EncodeAsPieces(y_i), " ".join(eap) and the whitespace split of
\* encode_line: the words of the string, the blanks dropped.
RECURSIVE EncodeAsPieces(_)
EncodeAsPieces(str) ==
  IF str = <<>> THEN <<>>
  ELSE LET sp == {k \in 1..Len(str) : str[k] = " "}
       IN IF sp = {} THEN <<str>>
          ELSE LET k == CHOOSE k \in sp : \A l \in sp : k <= l
                   rest == EncodeAsPieces(SubSeq(str, k + 1, Len(str)))
               IN IF k = 1 THEN rest ELSE <<SubSeq(str, 1, k - 1)>> \o rest

\* self.dictionary.index(piece): unknown pieces map to unk
\* (add_if_not_exist=False).
DictIndex(piece) ==
  IF piece = <<"A">> THEN 4 ELSE IF piece = <<"B">> THEN 5 ELSE UnkIdx

\* self.dictionary.encode_line(sp_string, add_if_not_exist=False): the ids of
\* the pieces, eos appended.
EncodeLine(pieces) ==
  [k \in 1..(Len(pieces) + 1) |->
     IF k <= Len(pieces) THEN DictIndex(pieces[k]) ELSE EosIdx]

\* x_i = x_i * 32767.  The amplitudes and their products are integers below
\* 2^24, which float32 (ART_NUMPY_DTYPE) represents exactly.
ScaleSample(data) == [k \in 1..Len(data) |-> data[k] * INT16MAX]

\* One pass of the loop of lines 388-410: the pair (x_i, target).  A numpy
\* sample becomes a new tensor on the estimator's device, bound to the local
\* name x_i only; a sample that is a tensor already stays the caller's object,
\* where the caller put it (the CPU here).
BatchItem(x_i, xkind, y_i, compute_gradient, dev) ==
  LET target == IF y_i = None THEN None ELSE EncodeLine(EncodeAsPieces(y_i))
      owner == IF xkind = "ndarray" THEN "local" ELSE "caller"
      leafdev == IF xkind = "ndarray" THEN dev ELSE "cpu"
  IN <<Tensor(ScaleSample(x_i), leafdev, owner, compute_gradient), target>>

\* key=lambda t: t[0].size(0), for every item of the batch
ItemLens(batch0) == [i \in 1..Len(batch0) |-> Size0(batch0[i][1])]

MaxOf(S) == CHOOSE m \in S : \A k \in S : k <= m

\* data_utils.collate_tokens(values, pad_idx, eos_idx, left_pad=False,
\* move_eos_to_beginning): right-padded rows of the longest length.
collate_tokens(values, pad_idx, eos_idx, move_eos_to_beginning) ==
  LET size == MaxOf({Len(values[i]) : i \in 1..Len(values)})
      row(v) == [k \in 1..size |->
                   IF k > Len(v) THEN pad_idx
                   ELSE IF ~move_eos_to_beginning THEN v[k]
                   ELSE IF k = 1 THEN eos_idx ELSE v[k - 1]]
  IN [i \in 1..Len(values) |-> row(values[i])]

\* src_lengths with a mistake: every row is given the padded length.
SrcLengthsPadded(sb) == [i \in 1..Len(sb) |-> Size0(sb[1][1])]

\* src_lengths of lines 336-341: row i gets the length of the i-th sample of
\* the sorted batch.
SrcLengths(sb) == [i \in 1..Len(sb) |-> Size0(sb[i][1])]

\* src_frames of lines 334-340: zeros of shape (batch_size, max_seqlength, 1)
\* with sample.unsqueeze(1) written over the first seq_length places of row i.
SrcFrames(sb) ==
  LET max_seqlength == Size0(sb[1][1])
  IN [i \in 1..Len(sb) |-> [k \in 1..max_seqlength |->
        IF k <= Size0(sb[i][1]) THEN <<sb[i][1].data[k]>> ELSE <<0>>]]

\* Lines 343-384 of _collate_fn, for the sorted batch sb: the targets, when
\* the batch has them, and the dictionary handed to the model.
BatchDict(sb, dev) ==
  LET hasTarget == sb[1][2] # None
      targets == [i \in 1..Len(sb) |-> sb[i][2]]
      nonpad(v) == Cardinality({k \in 1..Len(v) : v[k] # PadIdx})
      RECURSIVE total(_)
      total(i) == IF i = 0 THEN 0 ELSE nonpad(targets[i]) + total(i - 1)
  IN [ntokens |-> IF hasTarget THEN total(Len(sb)) ELSE None,
      net_input |-> [
        src_tokens |-> [device |-> dev, data |-> SrcFrames(sb)],
        src_lengths |-> [device |-> dev, data |-> SrcLengths(sb)],
        prev_output_tokens |->
          IF hasTarget
          THEN [device |-> dev,
                data |-> collate_tokens(targets, PadIdx, EosIdx, TRUE)]
          ELSE None],
      target |-> IF hasTarget
                 THEN [device |-> dev,
                       data |-> collate_tokens(targets, PadIdx, EosIdx, FALSE)]
                 ELSE None]

\* _collate_fn(batch): the batch is sorted by length, longest first, and
\* collated.  (The sorted batch is bound once, as a value.)
collate_fn(batch0, dev) ==
  CHOOSE d \in {BatchDict(sb, dev) :
                  sb \in {sorted(batch0, ItemLens(batch0), TRUE)}} : TRUE

\* The list built by the loop of lines 387-410.
BuildBatch(x, xkind, y, compute_gradient, dev) ==
  [i \in 1..Len(x) |->
     BatchItem(x[i], xkind, IF y = None THEN None ELSE y[i],
               compute_gradient, dev)]

\* batch_idx with a mistake: a descending order got by reversing an
\* ascending sort, which turns the order of equal lengths around.
BatchIdxReversedAscending(batch0) ==
  LET asc == sorted(range(Len(batch0)), ItemLens(batch0), FALSE)
  IN [j \in 1..Len(asc) |-> asc[Len(asc) + 1 - j]]

\* batch_idx = sorted(range(len(batch)), key=lambda i: batch[i][0].size(0),
\*                    reverse=True)
BatchIdx(batch0) ==
  sorted(range(Len(batch0)), ItemLens(batch0), TRUE)

\* _transform_model_input(x, y, compute_gradient): (batch_dict, batch_idx),
\* with the local list batch kept for inspection.
TransformModelInput(x, xkind, y, compute_gradient, dev) ==
  CHOOSE t \in {[batch |-> b, batch_idx |-> BatchIdx(b),
                  batch_dict |-> collate_fn(b, dev)] :
                   b \in {BuildBatch(x, xkind, y, compute_gradient, dev)}} : TRUE

\* ---------------------------------------------------------------------
\* predict and loss_gradient
\* ---------------------------------------------------------------------

\* The valid part of row j of the collated input.
RowFrames(bd, j) ==
  LET row == bd.net_input.src_tokens.data[j]
  IN [k \in 1..bd.net_input.src_lengths.data[j] |-> row[k][1]]

\* self.task.inference_step(generator, models, batch): for every row of the
\* batch, in the batch's order, the hypotheses of the beam, best first.  The
\* recognizer is external; its hypothesis for a row stands for "what these
\* frames say" and is told apart by the frames and the rank; as every
\* hypothesis of the toolkit, its tokens end with eos.
InferenceStep(bd) ==
  [j \in 1..Len(bd.net_input.src_tokens.data) |->
     [b \in 1..Beam |-> [tokens |-> Append(RowFrames(bd, j), EosIdx),
                         rank |-> b]]]

\* self.task.build_generator(self._models, self.esp_args): the generator
\* knows eos and pad, and, depending on the toolkit's version, has the
\* attribute symbols_to_strip_from_output (then {eos}) or has it not.
Generators ==
  {[eos |-> EosIdx, pad |-> PadIdx, has_symbols_to_strip |-> FALSE,
    symbols_to_strip_from_output |-> {}],
   [eos |-> EosIdx, pad |-> PadIdx, has_symbols_to_strip |-> TRUE,
    symbols_to_strip_from_output |-> {EosIdx}]}

\* get_symbols_to_strip_from_output(generator), lines 211-215
get_symbols_to_strip_from_output(gen) ==
  IF gen.has_symbols_to_strip
  THEN gen.symbols_to_strip_from_output
  ELSE {gen.eos, gen.pad}

\* self.dictionary.string(tokens, bpe_symbol=None,
\*                        extra_symbols_to_ignore=extra_symbols_to_ignore)
DictionaryString(tokens, extra_symbols_to_ignore) ==
  SelectSeq(tokens, LAMBDA t : t \notin extra_symbols_to_ignore)

\* Lines 242-247: self.bpe.decode of the string of one hypothesis.
BpeDecode(hypo, gen) ==
  <<"text", hypo.rank,
    DictionaryString(hypo.tokens, get_symbols_to_strip_from_output(gen))>>

\* The loop of lines 239-248 over the hypotheses of one batch: the first
\* nbest of every row, decoded, appended row after row.
RECURSIVE DecodeRows(_, _, _)
DecodeRows(hypos, j, gen) ==
  IF j > Len(hypos) THEN <<>>
  ELSE LET top == SubSeq(hypos[j], 1, Min(NBest, Len(hypos[j])))
       IN [b \in 1..Len(top) |-> BpeDecode(top[b], gen)]
            \o DecodeRows(hypos, j + 1, gen)

\* The loop of lines 226-248 from batch m on: decoded_output grows by every
\* batch, batch_idx (kept in t) is overwritten by every batch.  The samples
\* are numpy arrays, as the docstring has them.
RECURSIVE PredictBatches(_, _, _, _, _, _)
PredictBatches(x, batch_size, dev, gen, m, acc) ==
  IF m >= NumBatch(Len(x), batch_size) THEN acc
  ELSE LET begin == m * batch_size
           end == Min((m + 1) * batch_size, Len(x))
           t == TransformModelInput(Slice(x, begin, end), "ndarray", None,
                                    FALSE, dev)
           hypos == InferenceStep(t.batch_dict)
       IN PredictBatches(x, batch_size, dev, gen, m + 1,
            [decoded_output |-> acc.decoded_output \o DecodeRows(hypos, 1, gen),
             t |-> t])

\* predict(x, batch_size) from line 222 on: the loop, then
\* decoded_output_array[batch_idx] = decoded_output_copy.
PredictOutcome(x, batch_size, dev, gen) ==
  LET r == PredictBatches(x, batch_size, dev, gen, 0,
                          [decoded_output |-> <<>>, t |-> None])
  IN [t |-> r.t,
      ret |-> IndexAssign(r.decoded_output, r.t.batch_idx, r.decoded_output)]

\* The row of the collated input that sample i (1-based) was written to:
\* autograd follows the tensors through the sort of _collate_fn.
RowOf(batch0, i) ==
  LET tagged == [k \in 1..Len(batch0) |-> <<batch0[k][1], k>>]
      st == sorted(tagged, ItemLens(batch0), TRUE)
  IN CHOOSE j \in 1..Len(st) : st[j][2] = i

\* loss.backward(): the gradient left in the leaf of sample i.  The criterion
\* is external; the loss stands for half the sum of the squared frames, so
\* that d loss / d frame = frame and d frame / d x = 32767.
LeafGrad(t, i) ==
  LET j == RowOf(t.batch, i)
  IN [k \in 1..Size0(t.batch[i][1]) |->
        INT16MAX * t.batch_dict.net_input.src_tokens.data[j][k][1]]

\* The loop of lines 279-281: x_i.grad of the objects of x_preprocessed.  An
\* object that is still a numpy array has no attribute grad.
CollectGrads(t) ==
  IF \E i \in 1..Len(t.batch) : t.batch[i][1].owner # "caller"
  THEN [err |-> "AttributeError", value |-> None]
  ELSE [err |-> "none", value |-> [i \in 1..Len(t.batch) |-> LeafGrad(t, i)]]

\* loss_gradient(x, y) from line 273 on.
LossGradientOutcome(x, xkind, y, dev) ==
  CHOOSE o \in {[t |-> t, ret |-> CollectGrads(t)] :
                   t \in {TransformModelInput(x, xkind, y, TRUE, dev)}} : TRUE

\* ---------------------------------------------------------------------
\* __init__
\* ---------------------------------------------------------------------

LibriSpeech == "librispeech_transformer"

\* config_filename, model_filename, sp_filename, dict_filename
PretrainedFiles ==
  <<"libri960_transformer.yaml", "checkpoint_best.pt",
    "train_960_unigram5000.model", "train_960_unigram5000_units.txt">>

\* get_file(filename, path=config.ART_DATA_PATH, url): the path it saved to.
GetFile(filename) == <<"ART_DATA_PATH", filename>>

\* Namespace(**yaml.load(file)): the paths the file at config_path states.
ReadYaml(path) ==
  [path |-> <<path, "path">>,
   sentencepiece_model |-> <<path, "sentencepiece_model">>,
   dict |-> <<path, "dict">>]

\* The texts of the ValueErrors, each the sequence of its pieces: a piece is a
\* string, or the code of a character that a string here cannot hold (96 is
\* the backquote).
MsgClip == <<"This estimator requires normalized input audios with clip_vales=(-1, 1).">>
MsgPost == <<"This estimator does not support ", 96, "postprocessing_defences", 96, ".">>
MsgModel == <<"Model not recognised.">>

\* np.all(a == v) for a float or an array a
NpAllEq(a, v) == \A k \in 1..Len(a) : a[k] = v

\* The clip values check with a mistake: the maximum is never looked at.
ClipValuesErrorMinOnly(cv) ==
  IF cv # None /\ ~NpAllEq(cv[1], -1) THEN MsgClip ELSE None

\* Lines 106-110: the message of the ValueError raised for self.clip_values,
\* None when the check passes.
ClipValuesError(cv) ==
  IF cv # None
  THEN IF ~NpAllEq(cv[1], -1) THEN MsgClip
       ELSE IF ~NpAllEq(cv[2], 1) THEN MsgClip
       ELSE None
  ELSE None

\* ---- the constructor's arguments ----
ConfigArgs == {None, <<"user", "espresso.yaml">>}
\* model=None is the string "None", as model is compared with a string.
ModelArgs == {"None", LibriSpeech, "librispeech_lstm"}
ClipBounds == {-1, 0, 1}
\* clip_values that the base estimator takes: (min, max), floats (length 1)
\* or one bound per feature, every min below its max.
ClipPairs ==
  UNION {{<<mn, mx>> : mn \in [1..l -> ClipBounds], mx \in [1..l -> ClipBounds]}
           : l \in 1..MaxFeat}
ClipArgs ==
  {None} \cup {cv \in ClipPairs : \A k \in 1..Len(cv[1]) : cv[1][k] < cv[2][k]}
PostprocessingArgs == {None, <<"postprocessor">>}
DeviceTypes == {"cpu", "gpu"}

Raise(type, msg) ==
  /\ pc' = "raised"
  /\ ret' = [err |-> type, msg |-> msg]

InitCtor ==
  /\ pc = "super"
  /\ args \in [espresso_config_filepath : ConfigArgs, model : ModelArgs,
               clip_values : ClipArgs,
               postprocessing_defences : PostprocessingArgs,
               device_type : DeviceTypes]
  /\ cuda_available \in BOOLEAN
  /\ clip_values = None /\ postprocessing_defences = None
  /\ device = "unset"
  /\ pretrained = Unbound
  /\ config_path = Unbound /\ model_path = Unbound
  /\ sp_path = Unbound /\ dict_path = Unbound
  /\ fetched = <<>>
  /\ esp_args = None
  /\ loaded = {}
  /\ model_mode = "unset" /\ bn_train = FALSE
  /\ generator = None
  /\ call = None /\ batch = None /\ batch_idx = None /\ batch_dict = None
  /\ ret = None

\* Lines 95-103: super().__init__ keeps the arguments.
CtorSuper ==
  /\ pc = "super"
  /\ clip_values' = args.clip_values
  /\ postprocessing_defences' = args.postprocessing_defences
  /\ pc' = "check_clip"
  /\ UNCHANGED <<args, cuda_available, pretrained, config_path, model_path,
                 sp_path, dict_path, fetched, esp_args, estimatorVars, callVars>>

\* Lines 105-110
CtorCheckClipValues ==
  /\ pc = "check_clip"
  /\ IF ClipValuesError(clip_values) # None
     THEN Raise("ValueError", ClipValuesError(clip_values))
     ELSE pc' = "check_postprocessing" /\ ret' = ret
  /\ UNCHANGED <<ctorVars, estimatorVars, call, batch, batch_idx, batch_dict>>

\* Lines 112-114
CtorCheckPostprocessing ==
  /\ pc = "check_postprocessing"
  /\ IF postprocessing_defences # None
     THEN Raise("ValueError", MsgPost)
     ELSE pc' = "set_device" /\ ret' = ret
  /\ UNCHANGED <<ctorVars, estimatorVars, call, batch, batch_idx, batch_dict>>

\* Lines 116-122; torch.cuda.current_device() is device 0.
CtorSetDevice ==
  /\ pc = "set_device"
  /\ device' = IF args.device_type = "cpu" \/ ~cuda_available
               THEN "cpu" ELSE "cuda:0"
  /\ pc' = "select"
  /\ UNCHANGED <<ctorVars, loaded, model_mode, bn_train, generator, callVars>>

\* The choice of the pretrained files with a mistake: a model that is not
\* recognised falls back to the LibriSpeech transformer instead of raising.
CtorSelectPretrainedFallback ==
  /\ pc = "select"
  /\ IF args.espresso_config_filepath = None
     THEN pretrained' = PretrainedFiles /\ pc' = "download"
     ELSE pretrained' = pretrained /\ pc' = "open_config"
  /\ UNCHANGED <<args, cuda_available, clip_values, postprocessing_defences,
                 config_path, model_path, sp_path, dict_path, fetched,
                 esp_args, estimatorVars, callVars>>

\* Lines 125-148: the choice of the pretrained files.  With a config file
\* path given the whole block, downloads included, is skipped.
CtorSelectPretrained ==
  /\ pc = "select"
  /\ IF args.espresso_config_filepath = None
     THEN IF args.model = LibriSpeech
          THEN pretrained' = PretrainedFiles /\ pc' = "download" /\ ret' = ret
          ELSE Raise("ValueError", MsgModel) /\ pretrained' = pretrained
     ELSE pretrained' = pretrained /\ pc' = "open_config" /\ ret' = ret
  /\ UNCHANGED <<args, cuda_available, clip_values, postprocessing_defences,
                 config_path, model_path, sp_path, dict_path, fetched,
                 esp_args, estimatorVars, call, batch, batch_idx, batch_dict>>

\* Lines 150-162: one get_file per step, in the order config, checkpoint,
\* sentencepiece model, dictionary.
CtorDownload ==
  /\ pc = "download"
  /\ LET k == Len(fetched) + 1
         path == GetFile(pretrained[k])
     IN /\ fetched' = Append(fetched, pretrained[k])
        /\ config_path' = IF k = 1 THEN path ELSE config_path
        /\ model_path' = IF k = 2 THEN path ELSE model_path
        /\ sp_path' = IF k = 3 THEN path ELSE sp_path
        /\ dict_path' = IF k = 4 THEN path ELSE dict_path
        /\ pc' = IF k = 4 THEN "open_config" ELSE "download"
  /\ UNCHANGED <<args, cuda_available, clip_values, postprocessing_defences,
                 pretrained, esp_args, estimatorVars, callVars>>

\* Lines 164-172: open(config_path) reads the local config_path, which only
\* the download block assigns.
CtorOpenConfig ==
  /\ pc = "open_config"
  /\ IF config_path = Unbound
     THEN Raise("UnboundLocalError", "config_path") /\ esp_args' = esp_args
     ELSE /\ esp_args' =
               IF args.espresso_config_filepath = None
               THEN [ReadYaml(config_path) EXCEPT
                       !.path = model_path,
                       !.sentencepiece_model = sp_path,
                       !.dict = dict_path]
               ELSE ReadYaml(config_path)
          /\ pc' = "load" /\ ret' = ret
  /\ UNCHANGED <<args, cuda_available, clip_values, postprocessing_defences,
                 pretrained, config_path, model_path, sp_path, dict_path,
                 fetched, estimatorVars, call, batch, batch_idx, batch_dict>>

\* Lines 174-198: the task, the model ensemble (moved to the device), the
\* dictionary, generator, tokenizer, bpe, sentencepiece model and criterion.
\* A freshly loaded torch module is in training mode.
CtorLoad ==
  /\ pc = "load"
  /\ loaded' = {<<"task", esp_args.dict>>, <<"models", esp_args.path>>,
                <<"dictionary", esp_args.dict>>, <<"generator", esp_args.path>>,
                <<"tokenizer", None>>, <<"bpe", esp_args.sentencepiece_model>>,
                <<"spp", esp_args.sentencepiece_model>>, <<"criterion", None>>}
  /\ model_mode' = "train" /\ bn_train' = TRUE
  /\ generator' \in Generators
  /\ pc' = "constructed"
  /\ UNCHANGED <<ctorVars, device, callVars>>

NextCtor ==
  \/ CtorSuper
  \/ CtorCheckClipValues
  \/ CtorCheckPostprocessing
  \/ CtorSetDevice
  \/ CtorSelectPretrained
  \/ CtorDownload
  \/ CtorOpenConfig
  \/ CtorLoad

SpecCtor == InitCtor /\ [][NextCtor]_vars

\* ---------------------------------------------------------------------
\* The methods of a constructed estimator
\* ---------------------------------------------------------------------

\* The state PyTorchEspresso(model="librispeech_transformer") is left in,
\* the only arguments open being the device.
Init ==
  /\ pc = "constructed"
  /\ args \in [espresso_config_filepath : {None}, model : {LibriSpeech},
               clip_values : {None}, postprocessing_defences : {None},
               device_type : {"gpu"}]
  /\ cuda_available \in BOOLEAN
  /\ clip_values = None /\ postprocessing_defences = None
  /\ device = IF cuda_available THEN "cuda:0" ELSE "cpu"
  /\ pretrained = PretrainedFiles
  /\ config_path = GetFile(PretrainedFiles[1])
  /\ model_path = GetFile(PretrainedFiles[2])
  /\ sp_path = GetFile(PretrainedFiles[3])
  /\ dict_path = GetFile(PretrainedFiles[4])
  /\ fetched = PretrainedFiles
  /\ esp_args = [path |-> model_path, sentencepiece_model |-> sp_path,
                 dict |-> dict_path]
  /\ loaded = {<<"task", dict_path>>, <<"models", model_path>>,
               <<"dictionary", dict_path>>, <<"generator", model_path>>,
               <<"tokenizer", None>>, <<"bpe", sp_path>>,
               <<"spp", sp_path>>, <<"criterion", None>>}
  /\ model_mode = "train" /\ bn_train = TRUE
  /\ generator \in Generators
  /\ call = None /\ batch = None /\ batch_idx = None /\ batch_dict = None
  /\ ret = None

\* predict(x, batch_size).  self._model.eval() puts every layer, the
\* batch-norm layers too, in evaluation mode; without preprocessing defences
\* _apply_preprocessing hands x back.
Predict ==
  /\ pc = "constructed"
  /\ \E x \in XInputs, batch_size \in 1..MaxBatch :
       \E o \in {PredictOutcome(x, batch_size, device, generator)} :
          /\ call' = [op |-> "predict", x |-> x, batch_size |-> batch_size]
          /\ batch' = o.t.batch
          /\ batch_idx' = o.t.batch_idx
          /\ batch_dict' = o.t.batch_dict
          /\ ret' = o.ret
  /\ model_mode' = "eval" /\ bn_train' = FALSE
  /\ pc' = "returned"
  /\ UNCHANGED <<ctorVars, device, loaded, generator>>

\* loss_gradient(x, y).  self._model.train() and set_batchnorm(train=False)
\* come first; set_batchnorm(train=True) is the last statement and is not
\* reached when the collection of the gradients raises.
LossGradient ==
  /\ pc = "constructed"
  /\ \E x \in XInputs, xkind \in XKinds :
       \E y \in YInputs(Len(x)) :
          \E o \in {LossGradientOutcome(x, xkind, y, device)} :
             /\ call' = [op |-> "loss_gradient", x |-> x, xkind |-> xkind,
                         y |-> y]
             /\ batch' = o.t.batch
             /\ batch_idx' = o.t.batch_idx
             /\ batch_dict' = o.t.batch_dict
             /\ ret' = o.ret
             /\ bn_train' = (o.ret.err = "none")
  /\ model_mode' = "train"
  /\ pc' = "returned"
  /\ UNCHANGED <<ctorVars, device, loaded, generator>>

\* raise NotImplementedError, the whole body of a method: nothing of the
\* estimator is touched.
RaiseNotImplemented ==
  /\ ret' = [err |-> "NotImplementedError", value |-> None]
  /\ pc' = "returned"
  /\ UNCHANGED <<ctorVars, estimatorVars, batch, batch_idx, batch_dict>>

\* fit(x, y, batch_size=128, nb_epochs=10)
Fit ==
  /\ pc = "constructed"
  /\ \E x \in XInputs : \E y \in YInputs(Len(x)) :
        call' = [op |-> "fit", x |-> x, y |-> y,
                 batch_size |-> 128, nb_epochs |-> 10]
  /\ RaiseNotImplemented

\* compute_loss_and_decoded_output(masked_adv_input, original_output)
ComputeLossAndDecodedOutput ==
  /\ pc = "constructed"
  /\ \E x \in XInputs : \E y \in YInputs(Len(x)) :
        call' = [op |-> "compute_loss_and_decoded_output",
                 masked_adv_input |-> x, original_output |-> y]
  /\ RaiseNotImplemented

\* to_training_mode as the estimators that implement it have it:
\* self._model.train().
ToTrainingModeTrains ==
  /\ pc = "constructed"
  /\ call' = [op |-> "to_training_mode"]
  /\ model_mode' = "train" /\ bn_train' = TRUE
  /\ ret' = [err |-> "none", value |-> None]
  /\ pc' = "returned"
  /\ UNCHANGED <<ctorVars, device, loaded, generator, batch, batch_idx, batch_dict>>

\* to_training_mode()
ToTrainingMode ==
  /\ pc = "constructed"
  /\ call' = [op |-> "to_training_mode"]
  /\ RaiseNotImplemented

\* get_activations(x, layer, batch_size, framework=False)
GetActivations ==
  /\ pc = "constructed"
  /\ \E x \in XInputs, batch_size \in 1..MaxBatch, layer \in {0, 1} :
        call' = [op |-> "get_activations", x |-> x, layer |-> layer,
                 batch_size |-> batch_size, framework |-> FALSE]
  /\ RaiseNotImplemented

\* compute_loss(x, y)
ComputeLoss ==
  /\ pc = "constructed"
  /\ \E x \in XInputs : \E y \in YInputs(Len(x)) :
        call' = [op |-> "compute_loss", x |-> x, y |-> y]
  /\ RaiseNotImplemented

\* The call is over: its locals and its result are gone, the estimator
\* stays as the call left it.
Return ==
  /\ pc = "returned"
  /\ pc' = "constructed"
  /\ call' = None /\ batch' = None /\ batch_idx' = None /\ batch_dict' = None
  /\ ret' = None
  /\ UNCHANGED <<ctorVars, estimatorVars>>

Next ==
  \/ Predict
  \/ LossGradient
  \/ Fit
  \/ ComputeLossAndDecodedOutput
  \/ ToTrainingMode
  \/ GetActivations
  \/ ComputeLoss
  \/ Return

Spec == Init /\ [][Next]_vars

\* ---------------------------------------------------------------------
\* Properties of the constructor (checked under SpecCtor)
\* ---------------------------------------------------------------------

started == pc \in {"open_config", "load", "constructed"}
configRead == pc \in {"load", "constructed"}
cfgGiven == args.espresso_config_filepath # None

\* The clip values the estimator is documented to take.
ClipAccepted(cv) ==
  \/ cv = None
  \/ /\ \A k \in 1..Len(cv[1]) : cv[1][k] = -1
     /\ \A k \in 1..Len(cv[2]) : cv[2][k] = 1

nothingFetchedOrLoaded ==
  /\ fetched = <<>>
  /\ config_path = Unbound /\ model_path = Unbound
  /\ sp_path = Unbound /\ dict_path = Unbound
  /\ esp_args = None
  /\ loaded = {}
  /\ generator = None

\* C4: with espresso_config_filepath given the constructor reads that file
\* and uses the paths it states, downloading and overwriting nothing; with
\* None it downloads the pretrained files and overwrites path,
\* sentencepiece_model and dict with them; either way the path handed to
\* open() has been assigned.
C4_ConfigPathAssigned ==
  /\ pc = "open_config" => config_path # Unbound
  /\ (cfgGiven /\ pc = "raised") => ret.err # "UnboundLocalError"
  /\ (cfgGiven /\ configRead) =>
        /\ fetched = <<>>
        /\ esp_args = ReadYaml(args.espresso_config_filepath)
  /\ (~cfgGiven /\ configRead) =>
        /\ fetched = PretrainedFiles
        /\ esp_args.path = GetFile(PretrainedFiles[2])
        /\ esp_args.sentencepiece_model = GetFile(PretrainedFiles[3])
        /\ esp_args.dict = GetFile(PretrainedFiles[4])

\* C5: the constructor goes past the clip values check only for clip_values
\* None or (all minima -1, all maxima 1); for any other clip_values it ends
\* in a ValueError, with nothing downloaded, read or loaded.
C5_ClipValuesChecked ==
  /\ pc \notin {"super", "check_clip", "raised"} => ClipAccepted(args.clip_values)
  /\ (~ClipAccepted(args.clip_values) /\ pc = "raised") =>
        /\ ret.err = "ValueError"
        /\ nothingFetchedOrLoaded

\* C5 witness: clip values whose minima are all -1 and whose maxima are not
\* all 1 have been refused.
C5_Witness ==
  /\ pc = "raised"
  /\ args.clip_values # None
  /\ \A k \in 1..Len(args.clip_values[1]) : args.clip_values[1][k] = -1
  /\ \E k \in 1..Len(args.clip_values[2]) : args.clip_values[2][k] # 1
  /\ ret.err = "ValueError"
  /\ fetched = <<>>

\* C6 as stated: without a config file path and with a model other than
\* "librispeech_transformer" the constructor raises ValueError("Model not
\* recognised.") before any download or load; with that model the four files
\* are fetched in order before the config is opened.
C6_ModelNotRecognised ==
  /\ (~cfgGiven /\ args.model # LibriSpeech) =>
        /\ pc \notin {"download", "open_config", "load", "constructed"}
        /\ nothingFetchedOrLoaded
        /\ pc = "raised" => (ret.err = "ValueError" /\ ret.msg = MsgModel)
  /\ (~cfgGiven /\ args.model = LibriSpeech /\ started) =>
        fetched = PretrainedFiles

\* C6 as amended: the ValueError is "Model not recognised." when the
\* clip_values and postprocessing_defences checks, which come first, pass;
\* when one of them fails the constructor raises that check's ValueError,
\* still before any download or load.
C6_ModelNotRecognisedAfterChecks ==
  /\ (~cfgGiven /\ args.model # LibriSpeech) =>
        /\ pc \notin {"download", "open_config", "load", "constructed"}
        /\ nothingFetchedOrLoaded
        /\ pc = "raised" =>
              /\ ret.err = "ValueError"
              /\ (ClipAccepted(args.clip_values)
                    /\ args.postprocessing_defences = None) => ret.msg = MsgModel
  /\ (~cfgGiven /\ args.model = LibriSpeech) =>
        /\ Len(fetched) <= Len(PretrainedFiles)
        /\ fetched = SubSeq(PretrainedFiles, 1, Len(fetched))
        /\ started => fetched = PretrainedFiles
        /\ pc = "raised" => fetched = <<>>

\* C6 witness: model=None was refused as not recognised.
C6_Witness ==
  /\ pc = "raised"
  /\ ~cfgGiven /\ args.model = "None"
  /\ ret.msg = MsgModel
  /\ fetched = <<>>

\* ---------------------------------------------------------------------
\* Properties of the methods (checked under Spec)
\* ---------------------------------------------------------------------

returnedFrom(op) == pc = "returned" /\ call.op = op

\* What the recognizer says of one sample presented alone.
TranscriptionOf(x_i) ==
  PredictOutcome(<<x_i>>, 1, device, generator).ret.value[1]

\* The gradient of the loss with respect to one sample presented alone.
GradientOf(x_i, y_i) ==
  LossGradientOutcome(<<x_i>>, "tensor", <<y_i>>, device).ret.value[1]

\* C1: predict returns n transcriptions, entry i being the transcription of
\* x[i], for every batch_size >= 1, also when n > batch_size.
C1_PredictRestoresOrder ==
  returnedFrom("predict") =>
     /\ ret.err = "none"
     /\ Len(ret.value) = Len(call.x)
     /\ \A i \in 1..Len(call.x) : ret.value[i] = TranscriptionOf(call.x[i])

\* C2: for numpy samples loss_gradient returns n gradients, entry i being the
\* gradient with respect to x[i] and of x[i]'s length.
C2_GradientPerSample ==
  (returnedFrom("loss_gradient") /\ call.xkind = "ndarray") =>
     /\ ret.err = "none"
     /\ Len(ret.value) = Len(call.x)
     /\ \A i \in 1..Len(call.x) :
           /\ Len(ret.value[i]) = Len(call.x[i])
           /\ ret.value[i] = GradientOf(call.x[i], call.y[i])

transformed == pc = "returned" /\ batch # None
srcTokens == batch_dict.net_input.src_tokens.data
srcLengths == batch_dict.net_input.src_lengths.data

\* Row j of the collated input is sample s: its values, then zeros.
RowHolds(j, s) ==
  /\ srcLengths[j] = Len(s.data)
  /\ \A k \in 1..Len(srcTokens[j]) :
        srcTokens[j][k] = IF k <= Len(s.data) THEN <<s.data[k]>> ELSE <<0>>

\* C3: the rows of the collated input are in non-increasing length; src_tokens
\* has shape (n, longest length, 1); every row holds one sample of the batch,
\* its values first and zeros after them, and src_lengths its true length.
C3_Collated ==
  transformed =>
     LET n == Len(batch)
         longest == MaxOf({Size0(batch[i][1]) : i \in 1..n})
     IN /\ Len(srcTokens) = n /\ Len(srcLengths) = n
        /\ \A j \in 1..n :
              /\ Len(srcTokens[j]) = longest
              /\ \A k \in 1..longest : Len(srcTokens[j][k]) = 1
        /\ \A j \in 1..(n - 1) : srcLengths[j] >= srcLengths[j + 1]
        /\ \E p \in Permutations(1..n) :
              \A j \in 1..n : RowHolds(j, batch[p[j]][1])

\* C3 witness: a batch of three samples that was not in order and needed
\* padding has been collated.
C3_Witness ==
  /\ transformed
  /\ Len(batch) = 3
  /\ Size0(batch[1][1]) < Size0(batch[2][1])
  /\ srcLengths[3] < srcLengths[1]

\* C7: fit, compute_loss_and_decoded_output, to_training_mode,
\* get_activations and compute_loss raise NotImplementedError and leave the
\* model mode, the batch-norm mode, the device and the loaded objects alone.
UnimplementedOps ==
  {"fit", "compute_loss_and_decoded_output", "to_training_mode",
   "get_activations", "compute_loss"}
C7_Unimplemented ==
  [][(pc = "constructed" /\ pc' = "returned" /\ call'.op \in UnimplementedOps) =>
        /\ ret'.err = "NotImplementedError"
        /\ UNCHANGED estimatorVars]_vars

\* C7 witness: to_training_mode was called on an estimator in evaluation
\* mode, raised, and the estimator is still in evaluation mode.
C7_Witness ==
  /\ returnedFrom("to_training_mode")
  /\ ret.err = "NotImplementedError"
  /\ model_mode = "eval" /\ ~bn_train

\* C8: batch_idx is a permutation of 0..n-1, batch_idx[j] is the original
\* position of the sample in row j of the collated input, also among samples
\* of equal length, and writing row j's result to position batch_idx[j]
\* gives the results in the original order.
C8_BatchIdxIsRowOrigin ==
  transformed =>
     LET n == Len(batch)
         rowResult == DecodeRows(InferenceStep(batch_dict), 1, generator)
     IN /\ Len(batch_idx) = n
        /\ {batch_idx[j] : j \in 1..n} = 0..(n - 1)
        /\ \A j \in 1..n : RowHolds(j, batch[batch_idx[j] + 1][1])
        /\ [i \in 1..n |-> rowResult[CHOOSE j \in 1..n : batch_idx[j] + 1 = i]]
             = [i \in 1..n |-> <<"text", 1, batch[i][1].data>>]

\* C8 witness: a batch whose last two samples have one length and differ,
\* and whose order is a cycle of length three.
C8_Witness ==
  /\ transformed
  /\ batch_idx = <<1, 2, 0>>
  /\ Size0(batch[2][1]) = Size0(batch[3][1])
  /\ batch[2][1].data # batch[3][1].data

=============================================================================
